---- MODULE Spec2Model ----
(***************************************************************************)
(* lem-in: the ant-farm router of src/main.go.                             *)
(*                                                                         *)
(* A string is a sequence of one-character strings, so that                *)
(* strings.HasPrefix, strings.Contains, strings.Split, strings.Fields and  *)
(* strconv.Atoi are computed on the characters of a line.  A room name is  *)
(* such a sequence too; the empty string is << >>.                         *)
(***************************************************************************)
EXTENDS Integers, Sequences, FiniteSets, TLC

(***************************************************************************)
(* Bounds of the model.                                                    *)
(***************************************************************************)
\* the ant counts written on the first line of an input file: 1..MaxAnts
MaxAnts == 4
\* the largest number of tunnel lines of an input file
MaxEdges == 5
\* the number of iterations the loop of the visualizer variant is followed for
MaxSteps == 12

(***************************************************************************)
(* Characters and strings.                                                 *)
(***************************************************************************)
Digits == <<"0", "1", "2", "3", "4", "5", "6", "7", "8", "9">>

DigitSet == {Digits[i] : i \in 1..Len(Digits)}

DigitValue(c) == (CHOOSE i \in 1..Len(Digits) : Digits[i] = c) - 1

StartDirective == <<"#", "#", "s", "t", "a", "r", "t">>

EndDirective == <<"#", "#", "e", "n", "d">>

\* strings.HasPrefix(line, "#")
HasPrefix(line, c) == Len(line) >= 1 /\ line[1] = c

\* strings.Contains(line, "-")
Contains(line, c) == \E i \in 1..Len(line) : line[i] = c

\* strings.Split(line, "-"): the pieces between the separators, empty pieces kept
RECURSIVE SplitFrom(_, _, _, _)
SplitFrom(line, c, i, cur) ==
    IF i > Len(line) THEN <<cur>>
    ELSE IF line[i] = c THEN <<cur>> \o SplitFrom(line, c, i + 1, << >>)
    ELSE SplitFrom(line, c, i + 1, Append(cur, line[i]))

Split(line, c) == SplitFrom(line, c, 1, << >>)

\* strings.Fields(line): the maximal runs of non-space characters
RECURSIVE FieldsFrom(_, _, _)
FieldsFrom(line, i, cur) ==
    IF i > Len(line) THEN (IF cur = << >> THEN << >> ELSE <<cur>>)
    ELSE IF line[i] = " "
         THEN (IF cur = << >> THEN << >> ELSE <<cur>>) \o FieldsFrom(line, i + 1, << >>)
    ELSE FieldsFrom(line, i + 1, Append(cur, line[i]))

Fields(line) == FieldsFrom(line, 1, << >>)

RECURSIVE DecimalValue(_)
DecimalValue(s) ==
    IF s = << >> THEN 0
    ELSE 10 * DecimalValue(SubSeq(s, 1, Len(s) - 1)) + DigitValue(s[Len(s)])

\* strconv.Atoi: an optional sign followed by one or more decimal digits
Atoi(s) ==
    LET signed == Len(s) >= 1 /\ s[1] \in {"+", "-"}
        body   == IF signed THEN Tail(s) ELSE s
        ok     == body # << >> /\ \A i \in 1..Len(body) : body[i] \in DigitSet
    IN  [err |-> ~ok,
         val |-> IF ~ok THEN 0
                 ELSE IF signed /\ s[1] = "-" THEN 0 - DecimalValue(body)
                 ELSE DecimalValue(body)]

\* strconv.Itoa / the %d verb of fmt.Sprintf, for n >= 0
RECURSIVE Itoa(_)
Itoa(n) == IF n < 10 THEN <<Digits[n + 1]>> ELSE Itoa(n \div 10) \o <<Digits[(n % 10) + 1]>>

\* strings.Count(s, "\n")
RECURSIVE Count(_, _)
Count(s, c) ==
    IF s = << >> THEN 0 ELSE (IF s[1] = c THEN 1 ELSE 0) + Count(Tail(s), c)

\* strings.Join(elems, sep)
RECURSIVE Join(_, _)
Join(elems, sep) ==
    IF elems = << >> THEN << >>
    ELSE IF Len(elems) = 1 THEN elems[1]
    ELSE elems[1] \o sep \o Join(Tail(elems), sep)

(***************************************************************************)
(* Go maps: a function on the set of keys present; reading a missing key   *)
(* gives the zero value of the element type.                               *)
(***************************************************************************)
EmptyMap == [k \in {} |-> k]

Get(m, k, zero) == IF k \in DOMAIN m THEN m[k] ELSE zero

Put(m, k, v) == [x \in (DOMAIN m) \cup {k} |-> IF x = k THEN v ELSE m[x]]

\* the orders in which `range` may visit the keys of a map
KeyOrders(m) ==
    LET n == Cardinality(DOMAIN m)
    IN  {o \in [1..n -> DOMAIN m] : \A i, j \in 1..n : i # j => o[i] # o[j]}

(***************************************************************************)
(* Graph (src/main.go:21-64).                                              *)
(***************************************************************************)
NewGraph ==
    [Rooms |-> EmptyMap, Connections |-> EmptyMap, AntCount |-> 0,
     StartRoom |-> << >>, EndRoom |-> << >>]

\* Graph.AddRoom: [err, g]
AddRoom(g, name, x, y, isStart, isEnd) ==
    IF name \in DOMAIN g.Rooms THEN [err |-> TRUE, g |-> g]
    ELSE [err |-> FALSE,
          g |-> [g EXCEPT
                   !.Rooms = Put(g.Rooms, name,
                                 [Name |-> name, X |-> x, Y |-> y,
                                  IsStart |-> isStart, IsEnd |-> isEnd]),
                   !.StartRoom = IF isStart THEN name ELSE g.StartRoom,
                   !.EndRoom = IF isEnd THEN name ELSE g.EndRoom]]

\* AddConnection with a slip: the tunnel is entered at roomA only
AddConnectionOneWay(g, roomA, roomB) ==
    IF roomA \notin DOMAIN g.Rooms THEN [err |-> TRUE, g |-> g]
    ELSE IF roomB \notin DOMAIN g.Rooms THEN [err |-> TRUE, g |-> g]
    ELSE [err |-> FALSE,
          g |-> [g EXCEPT !.Connections =
                     Put(g.Connections, roomA, Append(Get(g.Connections, roomA, << >>), roomB))]]

\* Graph.AddConnection: [err, g]
AddConnection(g, roomA, roomB) ==
    IF roomA \notin DOMAIN g.Rooms THEN [err |-> TRUE, g |-> g]
    ELSE IF roomB \notin DOMAIN g.Rooms THEN [err |-> TRUE, g |-> g]
    ELSE LET c1 == Put(g.Connections, roomA, Append(Get(g.Connections, roomA, << >>), roomB))
             c2 == Put(c1, roomB, Append(Get(c1, roomB, << >>), roomA))
         IN  [err |-> FALSE, g |-> [g EXCEPT !.Connections = c2]]

(***************************************************************************)
(* Path enumeration (src/main.go:163-196).                                 *)
(***************************************************************************)
RECURSIVE findAllPaths(_, _, _, _, _)
RECURSIVE findAllPathsNeighbors(_, _, _, _, _, _)

\* findAllPaths with a slip: the path is recorded as it was before the current
\* room was appended
findAllPathsStale(g, currentRoom, visited, path, allPaths) ==
    LET v1 == Put(visited, currentRoom, TRUE)
        p1 == Append(path, currentRoom)
        r  == IF currentRoom = g.EndRoom
              THEN [visited |-> v1, allPaths |-> Append(allPaths, path)]
              ELSE findAllPathsNeighbors(g, Get(g.Connections, currentRoom, << >>), 1,
                                         v1, p1, allPaths)
    IN  [visited |-> Put(r.visited, currentRoom, FALSE), allPaths |-> r.allPaths]

\* findAllPaths with a slip: the room stays marked as visited on the way back
findAllPathsNoBacktrack(g, currentRoom, visited, path, allPaths) ==
    LET v1 == Put(visited, currentRoom, TRUE)
        p1 == Append(path, currentRoom)
    IN  IF currentRoom = g.EndRoom
        THEN [visited |-> v1, allPaths |-> Append(allPaths, p1)]
        ELSE findAllPathsNeighbors(g, Get(g.Connections, currentRoom, << >>), 1,
                                   v1, p1, allPaths)

\* findAllPaths: the recursive DFS; the result is [visited, allPaths]
findAllPaths(g, currentRoom, visited, path, allPaths) ==
    LET v1 == Put(visited, currentRoom, TRUE)
        p1 == Append(path, currentRoom)
        r  == IF currentRoom = g.EndRoom
              THEN [visited |-> v1, allPaths |-> Append(allPaths, p1)]
              ELSE findAllPathsNeighbors(g, Get(g.Connections, currentRoom, << >>), 1,
                                         v1, p1, allPaths)
    IN  [visited |-> Put(r.visited, currentRoom, FALSE), allPaths |-> r.allPaths]

\* the loop `for _, neighbor := range graph.Connections[currentRoom]` from index i
findAllPathsNeighbors(g, neighbors, i, visited, path, allPaths) ==
    IF i > Len(neighbors) THEN [visited |-> visited, allPaths |-> allPaths]
    ELSE IF ~Get(visited, neighbors[i], FALSE)
         THEN LET r == findAllPaths(g, neighbors[i], visited, path, allPaths)
              IN  findAllPathsNeighbors(g, neighbors, i + 1, r.visited, path, r.allPaths)
         ELSE findAllPathsNeighbors(g, neighbors, i + 1, visited, path, allPaths)

(***************************************************************************)
(* sort.Slice on a slice of at most 12 elements is the library's insertion  *)
(* sort (sort/zsortfunc.go, insertionSortLessFunc); the slices of the model *)
(* hold at most 6 elements, where older libraries run the same insertion    *)
(* sort.  The slice is a sequence of [key, val] records and less(i, j) is   *)
(* s[i].key < s[j].key.                                                     *)
(***************************************************************************)
Swap(s, i, j) == [s EXCEPT ![i] = s[j], ![j] = s[i]]

\* the inner loop `for j := i; j > a && less(j, j-1); j--`
RECURSIVE InsertionSink(_, _)
InsertionSink(s, j) ==
    IF j > 1 /\ s[j].key < s[j - 1].key THEN InsertionSink(Swap(s, j, j - 1), j - 1) ELSE s

RECURSIVE InsertionSortFrom(_, _)
InsertionSortFrom(s, i) ==
    IF i > Len(s) THEN s ELSE InsertionSortFrom(InsertionSink(s, i), i + 1)

SortSlice(s) == InsertionSortFrom(s, 2)

\* sort.Slice(allPaths, len(allPaths[i]) < len(allPaths[j]))
SortPaths(allPaths) ==
    LET keyed  == [i \in 1..Len(allPaths) |-> [key |-> Len(allPaths[i]), val |-> allPaths[i]]]
        sorted == SortSlice(keyed)
    IN  [i \in 1..Len(sorted) |-> sorted[i].val]

\* findShortestPaths: [visited, paths]
findShortestPaths(g, start) ==
    LET r == findAllPaths(g, start, EmptyMap, << >>, << >>)
    IN  [visited |-> r.visited, paths |-> SortPaths(r.allPaths)]

(***************************************************************************)
(* Grouping of compatible paths (src/main.go:198-247).                     *)
(***************************************************************************)
\* solutionsCompatible with a slip: the start and the end room count as shared rooms
solutionsCompatibleStrict(path1, path2, start, end) ==
    \A i \in 1..Len(path1) : \A j \in 1..Len(path2) : path1[i] # path2[j]

\* lines 198-210
solutionsCompatible(path1, path2, start, end) ==
    \A i \in 1..Len(path1) :
        (path1[i] = start \/ path1[i] = end)
        \/ \A j \in 1..Len(path2) : path1[i] # path2[j]

\* solutionCompatibleWithGroup with a slip: only the first path of the group is
\* compared with the candidate
solutionCompatibleWithFirst(candidate, group, start, end) ==
    solutionsCompatible(group[1], candidate, start, end)

solutionCompatibleWithGroup(candidate, group, start, end) ==
    \A k \in 1..Len(group) : solutionsCompatible(group[k], candidate, start, end)

\* GrowGroup with a slip: only the paths after the seed are looked at
RECURSIVE GrowGroupAfterSeed(_, _, _, _, _, _)
GrowGroupAfterSeed(paths, i, j, group, start, end) ==
    IF j > Len(paths) THEN group
    ELSE IF j <= i THEN GrowGroupAfterSeed(paths, i, j + 1, group, start, end)
    ELSE IF solutionCompatibleWithGroup(paths[j], group, start, end)
         THEN GrowGroupAfterSeed(paths, i, j + 1, Append(group, paths[j]), start, end)
         ELSE GrowGroupAfterSeed(paths, i, j + 1, group, start, end)

\* the inner loop `for j, path2 := range paths` of calculateSolutionGroups
RECURSIVE GrowGroup(_, _, _, _, _, _)
GrowGroup(paths, i, j, group, start, end) ==
    IF j > Len(paths) THEN group
    ELSE IF i = j THEN GrowGroup(paths, i, j + 1, group, start, end)
    ELSE IF solutionCompatibleWithGroup(paths[j], group, start, end)
         THEN GrowGroup(paths, i, j + 1, Append(group, paths[j]), start, end)
         ELSE GrowGroup(paths, i, j + 1, group, start, end)

calculateSolutionGroups(paths, start, end) ==
    IF Len(paths) <= 1
    THEN (IF Len(paths) = 1 THEN <<paths>> ELSE << >>)
    ELSE [i \in 1..Len(paths) |-> GrowGroup(paths, i, 1, <<paths[i]>>, start, end)]

(***************************************************************************)
(* Ant distribution (src/main.go:249-271).                                 *)
(***************************************************************************)
\* MinLoadIndex with a slip: among equal loads the last index wins
RECURSIVE MinLoadIndexLast(_, _, _)
MinLoadIndexLast(loads, i, minIndex) ==
    IF i > Len(loads) THEN minIndex
    ELSE IF loads[i] <= loads[minIndex] THEN MinLoadIndexLast(loads, i + 1, i)
    ELSE MinLoadIndexLast(loads, i + 1, minIndex)

\* the scan `for i, load := range loads`: the first index of the smallest load
RECURSIVE MinLoadIndex(_, _, _)
MinLoadIndex(loads, i, minIndex) ==
    IF i > Len(loads) THEN minIndex
    ELSE IF loads[i] < loads[minIndex] THEN MinLoadIndex(loads, i + 1, i)
    ELSE MinLoadIndex(loads, i + 1, minIndex)

RECURSIVE DistributeFrom(_, _, _, _, _)
DistributeFrom(paths, ants, antIndex, loads, assignment) ==
    IF antIndex > ants THEN assignment
    ELSE LET minIndex == MinLoadIndex(loads, 1, 1)
         IN  DistributeFrom(paths, ants, antIndex + 1,
                            [loads EXCEPT ![minIndex] = @ + 1],
                            Put(assignment, antIndex, paths[minIndex]))

\* distributeAnts with a slip: the loads start at 0, not at the path lengths
distributeAntsEvenly(paths, ants) ==
    DistributeFrom(paths, ants, 1, [i \in 1..Len(paths) |-> 0], EmptyMap)

\* distributeAnts: the map ant id -> path
distributeAnts(paths, ants) ==
    DistributeFrom(paths, ants, 1, [i \in 1..Len(paths) |-> Len(paths[i])], EmptyMap)

(***************************************************************************)
(* Ant movement (src/main.go:273-334).                                     *)
(***************************************************************************)
\* lines 280-284: the map copied into a slice, in the order `range` visits it
AssignmentSlice(originalAssignment, order) ==
    [i \in 1..Len(order) |-> [AntID |-> order[i], Path |-> originalAssignment[order[i]]]]

\* SortAssignments with a slip: the slice is left in the order of the map range
SortAssignmentsSkipped(slice) == slice

\* lines 287-289: sort.Slice(assignments, AntID ascending)
SortAssignments(slice) ==
    LET keyed  == [i \in 1..Len(slice) |-> [key |-> slice[i].AntID, val |-> slice[i]]]
        sorted == SortSlice(keyed)
    IN  [i \in 1..Len(sorted) |-> sorted[i].val]

\* MoveString with a slip: the ants are numbered from 0
MoveStringFromZero(antID, nextRoom) == <<"L">> \o Itoa(antID - 1) \o <<"-">> \o nextRoom

\* fmt.Sprintf("L%d-%s", antID, nextRoom)
MoveString(antID, nextRoom) == <<"L">> \o Itoa(antID) \o <<"-">> \o nextRoom

\* line 309: the condition under which the ant moves
MayMove(t, currentRoom, nextRoom) ==
    /\ ~Get(t.roomFull, nextRoom, FALSE)
    /\ Get(t.tunnelsUsed, currentRoom, << >>) # nextRoom

\* Moved with a slip: the room the ant enters is not marked full
MovedUnmarked(a, t, nextPosition, currentRoom, nextRoom, end) ==
    [t EXCEPT
       !.antPositions = Put(t.antPositions, a.AntID, nextPosition),
       !.moveStrings = Append(t.moveStrings, MoveString(a.AntID, nextRoom)),
       !.roomFull = Put(t.roomFull, currentRoom, FALSE),
       !.tunnelsUsed = Put(t.tunnelsUsed, currentRoom, nextRoom)]

\* Moved with a slip: the room the ant leaves stays marked full
MovedNotFreed(a, t, nextPosition, currentRoom, nextRoom, end) ==
    [t EXCEPT
       !.antPositions = Put(t.antPositions, a.AntID, nextPosition),
       !.moveStrings = Append(t.moveStrings, MoveString(a.AntID, nextRoom)),
       !.roomFull = IF nextRoom # end THEN Put(t.roomFull, nextRoom, TRUE) ELSE t.roomFull,
       !.tunnelsUsed = Put(t.tunnelsUsed, currentRoom, nextRoom)]

\* Moved with a slip: the end room is marked full like any other room
MovedMarkingEnd(a, t, nextPosition, currentRoom, nextRoom, end) ==
    [t EXCEPT
       !.antPositions = Put(t.antPositions, a.AntID, nextPosition),
       !.moveStrings = Append(t.moveStrings, MoveString(a.AntID, nextRoom)),
       !.roomFull = Put(Put(t.roomFull, nextRoom, TRUE), currentRoom, FALSE),
       !.tunnelsUsed = Put(t.tunnelsUsed, currentRoom, nextRoom)]

\* lines 310-317: the ant moves from currentRoom to nextRoom
Moved(a, t, nextPosition, currentRoom, nextRoom, end) ==
    LET rf1 == IF nextRoom # end THEN Put(t.roomFull, nextRoom, TRUE) ELSE t.roomFull
    IN  [t EXCEPT
           !.antPositions = Put(t.antPositions, a.AntID, nextPosition),
           !.moveStrings = Append(t.moveStrings, MoveString(a.AntID, nextRoom)),
           !.roomFull = Put(rf1, currentRoom, FALSE),
           !.tunnelsUsed = Put(t.tunnelsUsed, currentRoom, nextRoom)]

\* OnTheWay with a slip: the ant stops one room before the end of its path
OnTheWayToLastButOne(a, currentPosition) == currentPosition < Len(a.Path) - 2

\* line 304: the ant has not reached the end of its path
OnTheWay(a, currentPosition) == currentPosition < Len(a.Path) - 1

\* lines 302-321: the body of `for i := range assignments` for the ant a.
\* t = [antPositions, roomFull, tunnelsUsed, moveStrings, finishedAnts]
MoveAnt(a, t, end) ==
    LET currentPosition == Get(t.antPositions, a.AntID, 0)
    IN  IF OnTheWay(a, currentPosition)
        THEN LET nextPosition == currentPosition + 1
                 currentRoom  == a.Path[currentPosition + 1]
                 nextRoom     == a.Path[nextPosition + 1]
             IN  IF MayMove(t, currentRoom, nextRoom)
                 THEN Moved(a, t, nextPosition, currentRoom, nextRoom, end)
                 ELSE t
        ELSE [t EXCEPT !.finishedAnts = @ + 1]

\* the loop `for i := range assignments` from index i
RECURSIVE MoveAnts(_, _, _, _)
MoveAnts(assignments, i, t, end) ==
    IF i > Len(assignments) THEN t
    ELSE MoveAnts(assignments, i + 1, MoveAnt(assignments[i], t, end), end)

(***************************************************************************)
(* The visualizer variant (src/unnamed/part_000): its own parser, a        *)
(* breadth-first search for one shortest path, and the turn loop on it.    *)
(***************************************************************************)
\* Graph.AddRoom of the variant: a room of the same name is overwritten
VisualizerAddRoom(g, name, x, y, isStart, isEnd) ==
    [g EXCEPT
       !.Rooms = Put(g.Rooms, name,
                     [Name |-> name, X |-> x, Y |-> y, IsStart |-> isStart, IsEnd |-> isEnd]),
       !.StartRoom = IF isStart THEN name ELSE g.StartRoom,
       !.EndRoom = IF isEnd THEN name ELSE g.EndRoom]

\* Graph.AddConnection of the variant: [err, g]
VisualizerAddConnection(g, roomA, roomB) ==
    IF roomA \notin DOMAIN g.Rooms \/ roomB \notin DOMAIN g.Rooms
    THEN [err |-> TRUE, g |-> g]
    ELSE LET c1 == Put(g.Connections, roomA, Append(Get(g.Connections, roomA, << >>), roomB))
             c2 == Put(c1, roomB, Append(Get(c1, roomB, << >>), roomA))
         IN  [err |-> FALSE, g |-> [g EXCEPT !.Connections = c2]]

\* parseInput, the scanner loop from line i of the file: [err, g]
RECURSIVE parseInputFrom(_, _, _, _, _, _)
parseInputFrom(lines, i, g, st, en, ln) ==
    IF i > Len(lines)
    THEN [err |-> (g.StartRoom = << >> \/ g.EndRoom = << >>), g |-> g]
    ELSE LET line == lines[i]
         IN  IF HasPrefix(line, "#")
             THEN parseInputFrom(lines, i + 1, g,
                                 IF line = StartDirective THEN TRUE ELSE st,
                                 IF line # StartDirective /\ line = EndDirective THEN TRUE ELSE en,
                                 ln)
             ELSE IF ln = 0
             THEN LET n == Atoi(line)
                  IN  IF n.err THEN [err |-> TRUE, g |-> [g EXCEPT !.AntCount = n.val]]
                      ELSE parseInputFrom(lines, i + 1, [g EXCEPT !.AntCount = n.val],
                                          st, en, ln + 1)
             ELSE IF Contains(line, "-")
             THEN LET parts == Split(line, "-")
                  IN  IF Len(parts) # 2 THEN [err |-> TRUE, g |-> g]
                      ELSE LET added == VisualizerAddConnection(g, parts[1], parts[2])
                           IN  IF added.err THEN [err |-> TRUE, g |-> g]
                               ELSE parseInputFrom(lines, i + 1, added.g, st, en, ln)
             ELSE LET fields == Fields(line)
                  IN  IF Len(fields) # 3 THEN [err |-> TRUE, g |-> g]
                      ELSE IF Atoi(fields[2]).err \/ Atoi(fields[3]).err
                      THEN [err |-> TRUE, g |-> g]
                      ELSE parseInputFrom(lines, i + 1,
                                          VisualizerAddRoom(g, fields[1], Atoi(fields[2]).val,
                                                            Atoi(fields[3]).val, st, en),
                                          FALSE, FALSE, ln)

\* parseInput: [err, g]
parseInput(lines) == parseInputFrom(lines, 1, NewGraph, FALSE, FALSE, 0)

\* findShortestPath, the loop over the neighbours of the current room from index i:
\* [queue, visitedRooms]
RECURSIVE EnqueueNeighbors(_, _, _, _, _)
EnqueueNeighbors(neighbors, i, currentPath, queue, visitedRooms) ==
    IF i > Len(neighbors) THEN [queue |-> queue, visitedRooms |-> visitedRooms]
    ELSE IF ~Get(visitedRooms, neighbors[i], FALSE)
         THEN EnqueueNeighbors(neighbors, i + 1, currentPath,
                               Append(queue, Append(currentPath, neighbors[i])),
                               Put(visitedRooms, neighbors[i], TRUE))
         ELSE EnqueueNeighbors(neighbors, i + 1, currentPath, queue, visitedRooms)

\* findShortestPath, the loop `for len(queue) > 0`; nil is the empty sequence
RECURSIVE BreadthFirst(_, _, _)
BreadthFirst(g, queue, visitedRooms) ==
    IF Len(queue) = 0 THEN << >>
    ELSE LET currentPath == Head(queue)
             currentRoom == currentPath[Len(currentPath)]
         IN  IF currentRoom = g.EndRoom THEN currentPath
             ELSE LET r == EnqueueNeighbors(Get(g.Connections, currentRoom, << >>), 1,
                                            currentPath, Tail(queue), visitedRooms)
                  IN  BreadthFirst(g, r.queue, r.visitedRooms)

findShortestPath(g) == BreadthFirst(g, <<<<g.StartRoom>>>>, Put(EmptyMap, g.StartRoom, TRUE))

\* lines 178-183: the ant moves to the next room of the path
VisualizerMoved(antID, t, path, currentPosition) ==
    LET nextRoom == path[currentPosition + 2]
        entered  == Put(t.roomOccupancy, nextRoom, Get(t.roomOccupancy, nextRoom, 0) + 1)
    IN  [t EXCEPT
           !.antPositions = Put(t.antPositions, antID, currentPosition + 1),
           !.moveStrings = Append(t.moveStrings, MoveString(antID, nextRoom)),
           !.roomOccupancy =
               IF currentPosition > 0
               THEN Put(entered, path[currentPosition + 1],
                        Get(entered, path[currentPosition + 1], 0) - 1)
               ELSE entered]

\* lines 169-188: the loop `for antID := 1; antID <= numAnts; antID++` from antID;
\* t = [antPositions, roomOccupancy, moveStrings, finishedAnts]
RECURSIVE VisualizerMoveAnts(_, _, _, _, _)
VisualizerMoveAnts(antID, numAnts, path, end, t) ==
    IF antID > numAnts THEN t
    ELSE LET currentPosition == Get(t.antPositions, antID, 0)
         IN  IF currentPosition < Len(path) - 1
             THEN LET nextRoom == path[currentPosition + 2]
                  IN  IF Get(t.roomOccupancy, nextRoom, 0) = 0 \/ nextRoom = end
                      THEN VisualizerMoveAnts(antID + 1, numAnts, path, end,
                                              VisualizerMoved(antID, t, path, currentPosition))
                      ELSE VisualizerMoveAnts(antID + 1, numAnts, path, end, t)
             ELSE VisualizerMoveAnts(antID + 1, numAnts, path, end,
                                     [t EXCEPT !.finishedAnts = @ + 1])

(***************************************************************************)
(* The input files of the model: MaxAnts and MaxEdges bound them.          *)
(***************************************************************************)
S == <<"S">>

T == <<"T">>

InnerRooms == <<<<"a">>, <<"b">>, <<"c">>>>

\* the tunnels an input file may list, in the order it lists them
CandidateTunnels ==
    << <<S, <<"a">>>>, <<S, <<"b">>>>, <<<<"a">>, <<"b">>>>, <<<<"a">>, <<"c">>>>,
       <<<<"b">>, <<"c">>>>, <<<<"a">>, T>>, <<<<"b">>, T>>, <<<<"c">>, T>>, <<S, T>> >>

RoomLine(name, x) == name \o <<" ">> \o Itoa(x) \o <<" ", "0">>

TunnelLine(e) == e[1] \o <<"-">> \o e[2]

RECURSIVE TunnelLines(_, _)
TunnelLines(chosen, i) ==
    IF i > Len(CandidateTunnels) THEN << >>
    ELSE (IF i \in chosen THEN <<TunnelLine(CandidateTunnels[i])>> ELSE << >>)
         \o TunnelLines(chosen, i + 1)

\* ants, ##start, S, the inner rooms, ##end, T, then the tunnels
InputFile(ants, chosen) ==
    <<Itoa(ants), StartDirective, RoomLine(S, 0)>>
    \o [i \in 1..Len(InnerRooms) |-> RoomLine(InnerRooms[i], i)]
    \o <<EndDirective, RoomLine(T, 9)>>
    \o TunnelLines(chosen, 1)

\* the well-formed files: any choice of at most MaxEdges tunnels
ValidFiles ==
    {InputFile(ants, chosen) :
        ants \in 1..MaxAnts,
        chosen \in {c \in SUBSET (1..Len(CandidateTunnels)) : Cardinality(c) <= MaxEdges}}

\* files that list one of their (one or two) tunnels a second time, as b-a
DuplicateTunnelFiles ==
    UNION {{Append(InputFile(1, chosen),
                   TunnelLine(<<CandidateTunnels[i][2], CandidateTunnels[i][1]>>)) :
               i \in chosen} :
           chosen \in {c \in SUBSET (1..Len(CandidateTunnels)) : Cardinality(c) \in {1, 2}}}

\* a file of the given ant line, room lines and tunnel lines
FileOf(antLine, roomLines, tunnelLines) == <<antLine>> \o roomLines \o tunnelLines

\* "name x y" with the coordinates as they are written
WrittenRoomLine(name, x, y) == name \o <<" ">> \o x \o <<" ">> \o y

\* the files that break a rule of the format, or come close to it: two ants, the
\* rooms S, a (and sometimes b), T and the tunnels S-a, a-T unless said otherwise
DefectFiles ==
    LET a == InnerRooms[1]
        b == InnerRooms[2]
        z == <<"z">>
        two == Itoa(2)
        rooms == <<StartDirective, RoomLine(S, 0), RoomLine(a, 1), EndDirective, RoomLine(T, 9)>>
        tunnels == <<TunnelLine(<<S, a>>), TunnelLine(<<a, T>>)>>
        WithRoom(line) ==
            FileOf(two,
                   <<StartDirective, RoomLine(S, 0), RoomLine(a, 1), line, EndDirective,
                     RoomLine(T, 9)>>,
                   tunnels \o <<TunnelLine(<<S, b>>), TunnelLine(<<b, T>>)>>)
    IN  \* the ant line
        {FileOf(n, rooms, tunnels) : n \in {<<"0">>, <<"x">>, <<"-", "1">>, << >>}}
        \cup
        \* a room line of two fields, of a coordinate that is no number, declared twice,
        \* or with a negative coordinate
        {WithRoom(line) :
            line \in {<<"b", " ", "2">>,
                      WrittenRoomLine(b, <<"x">>, <<"0">>),
                      WrittenRoomLine(b, <<"2">>, <<"y">>),
                      RoomLine(a, 1),
                      RoomLine(b, 2),
                      WrittenRoomLine(b, <<"-", "2">>, <<"0">>),
                      WrittenRoomLine(b, <<"2">>, <<"-", "1">>),
                      WrittenRoomLine(b, <<"-", "2">>, <<"-", "1">>)}}
        \cup
        \* the source written with a negative coordinate
        {FileOf(two,
                <<StartDirective, WrittenRoomLine(S, <<"-", "1">>, <<"0">>), RoomLine(a, 1),
                  EndDirective, RoomLine(T, 9)>>,
                tunnels)}
        \cup
        \* a tunnel line of three names, of one room twice, or of an undeclared room
        {FileOf(two, rooms, Append(tunnels, line)) :
            line \in {S \o <<"-">> \o a \o <<"-">> \o T,
                      TunnelLine(<<a, a>>),
                      TunnelLine(<<z, z>>),
                      TunnelLine(<<S, z>>),
                      TunnelLine(<<z, T>>)}}
        \cup
        {FileOf(two, rooms, <<TunnelLine(<<S, z>>), TunnelLine(<<z, T>>)>>)}
        \cup
        \* the directives: one missing, one given to two rooms, both given to one room
        {FileOf(two, marks, tunnels) :
            marks \in {<<RoomLine(S, 0), RoomLine(a, 1), EndDirective, RoomLine(T, 9)>>,
                       <<StartDirective, RoomLine(S, 0), RoomLine(a, 1), RoomLine(T, 9)>>,
                       <<StartDirective, RoomLine(S, 0), StartDirective, RoomLine(a, 1),
                         EndDirective, RoomLine(T, 9)>>,
                       <<StartDirective, RoomLine(S, 0), EndDirective, RoomLine(a, 1),
                         EndDirective, RoomLine(T, 9)>>,
                       <<StartDirective, EndDirective, RoomLine(S, 0), RoomLine(a, 1),
                         RoomLine(T, 9)>>,
                       <<StartDirective, EndDirective, RoomLine(S, 0), RoomLine(a, 1),
                         EndDirective, RoomLine(T, 9)>>}}

\* files in which the path met first, S-a-b-T, crosses the two disjoint paths
\* S-a-c-T and S-d-b-T of the same length
CrossingFiles ==
    LET a == InnerRooms[1]
        b == InnerRooms[2]
        c == InnerRooms[3]
        d == <<"d">>
    IN  {FileOf(Itoa(ants),
                <<StartDirective, RoomLine(S, 0), RoomLine(a, 1), RoomLine(b, 2), RoomLine(c, 3),
                  RoomLine(d, 4), EndDirective, RoomLine(T, 9)>>,
                <<TunnelLine(<<S, a>>), TunnelLine(<<a, b>>), TunnelLine(<<b, T>>),
                  TunnelLine(<<a, c>>), TunnelLine(<<c, T>>), TunnelLine(<<S, d>>),
                  TunnelLine(<<d, b>>)>>) :
            ants \in {2, 3}}

InputFiles == ValidFiles \cup DuplicateTunnelFiles \cup DefectFiles \cup CrossingFiles

(***************************************************************************)
(* State.                                                                  *)
(***************************************************************************)
VARIABLES
    argGiven,          \* len(os.Args) >= 2
    fileExists,        \* os.Open succeeds
    file,              \* the lines of the input file
    pc,                \* the place of the program; "exit": the process ended before
                       \* readInput returned, "done": main returned after it
    exitCode,          \* -1 while running, then the exit status of the process
    output,            \* what was printed: [stream, text, arg] records
    scanner,           \* the index of the line scanner.Scan() delivers next
    lineNumber,        \* readInput: lineNumber
    start,             \* readInput: start
    end,               \* readInput: end
    graph,             \* the *Graph
    visited,           \* findShortestPaths: visited
    paths,             \* main: paths
    solutionGroups,    \* main: solutionGroups
    groupIndex,        \* main: the index of `range solutionGroups` (from 1)
    assignment,        \* main: assignment
    assignments,       \* getAntMoves: assignments
    antMoves,          \* getAntMoves: antMoves
    antPositions,      \* getAntMoves: antPositions
    roomFull,          \* getAntMoves: roomFull
    tunnelsUsed,       \* getAntMoves: tunnelsUsed of the latest turn
    moveStrings,       \* getAntMoves: moveStrings of the latest turn
    finishedAnts,      \* getAntMoves: finishedAnts of the latest turn
    antMovesPerPath,   \* main: antMovesPerPath
    shortestSolution,  \* main: shortestSolution
    steps,             \* main: steps
    run,               \* 1 in the first run of the program on the file, 2 in the second
    firstRun,          \* what the first run printed and returned
    shortestPath,      \* visualizer, main: shortestPath
    roomOccupancy,     \* visualizeAntMovements: roomOccupancy
    step               \* visualizeAntMovements: step

progVars ==
    <<pc, exitCode, output, scanner, lineNumber, start, end, graph, visited, paths,
      solutionGroups, groupIndex, assignment, assignments, antMoves, antPositions,
      roomFull, tunnelsUsed, moveStrings, finishedAnts, antMovesPerPath,
      shortestSolution, steps>>

\* the variables of the visualizer variant alone; it shares pc, output, exitCode,
\* graph, antPositions, moveStrings and finishedAnts with the program of main.go
visualizerVars == <<shortestPath, roomOccupancy, step>>

vars == <<argGiven, fileExists, file, run, firstRun, visualizerVars, progVars>>

Println(text, arg) == [stream |-> "stdout", text |-> text, arg |-> arg]

\* the state of a process that has just been started
Started ==
    /\ pc = "main"
    /\ exitCode = -1
    /\ output = << >>
    /\ scanner = 1
    /\ lineNumber = 0
    /\ start = FALSE
    /\ end = FALSE
    /\ graph = NewGraph
    /\ visited = EmptyMap
    /\ paths = << >>
    /\ solutionGroups = << >>
    /\ groupIndex = 1
    /\ assignment = EmptyMap
    /\ assignments = << >>
    /\ antMoves = << >>
    /\ antPositions = EmptyMap
    /\ roomFull = EmptyMap
    /\ tunnelsUsed = EmptyMap
    /\ moveStrings = << >>
    /\ finishedAnts = 0
    /\ antMovesPerPath = << >>
    /\ shortestSolution = << >>
    /\ steps = 0

Init ==
    /\ \/ argGiven = FALSE /\ fileExists = FALSE /\ file = << >>
       \/ argGiven = TRUE /\ fileExists = FALSE /\ file = << >>
       \/ argGiven = TRUE /\ fileExists = TRUE /\ file \in InputFiles
    /\ run = 1
    /\ firstRun = << >>
    /\ shortestPath = << >>
    /\ roomOccupancy = EmptyMap
    /\ step = 0
    /\ Started

(***************************************************************************)
(* main and readInput up to the scanner loop (src/main.go:346-352, 67-80). *)
(***************************************************************************)
routeVars ==
    <<visited, paths, solutionGroups, groupIndex, assignment, assignments, antMoves,
      antPositions, roomFull, tunnelsUsed, moveStrings, finishedAnts, antMovesPerPath,
      shortestSolution, steps>>

readVars == <<scanner, lineNumber, start, end, graph>>

inputVars == <<argGiven, fileExists, file, run, firstRun, visualizerVars>>

MainStart ==
    /\ pc = "main"
    /\ IF ~argGiven
       THEN /\ output' = Append(output, Println("Usage: go run . <filename.txt>", << >>))
            /\ pc' = "exit"
            /\ exitCode' = 0
       ELSE IF ~fileExists
       THEN /\ output' = Append(output, [stream |-> "stderr", text |-> "ERROR: %v", arg |-> << >>])
            /\ pc' = "exit"
            /\ exitCode' = 1
       ELSE /\ output' = output \o <<Println("File opened successfully!", << >>),
                                      Println("", << >>)>>
            /\ pc' = "scan"
            /\ exitCode' = exitCode
    /\ UNCHANGED <<inputVars, readVars, routeVars>>

(***************************************************************************)
(* One line of the scanner loop of readInput (src/main.go:82-145).         *)
(***************************************************************************)
\* IdenticalConnection with a slip: the scan stops after the first key it visits
IdenticalConnectionFirstKey(connections, order, parts) ==
    /\ Len(order) >= 1
    /\ \E v \in 1..Len(connections[order[1]]) :
         LET key == order[1]
             val == connections[order[1]][v]
         IN  \/ (key = parts[1] /\ val = parts[2])
             \/ (key = parts[2] /\ val = parts[1])

\* lines 113-120: the scan of graph.Connections for the tunnel parts[0]-parts[1],
\* visiting the keys in the order `order`; TRUE when os.Exit(1) is reached
IdenticalConnection(connections, order, parts) ==
    \E k \in 1..Len(order) :
        \E v \in 1..Len(connections[order[k]]) :
            LET key == order[k]
                val == connections[order[k]][v]
            IN  \/ (key = parts[1] /\ val = parts[2])
                \/ (key = parts[2] /\ val = parts[1])

\* the outcome of one line: [exit, code, msg, graph, start, end, lineNumber];
\* exit is TRUE when the line ends the process with status code after printing msg
LineOutcome(line, order, g, st, en, ln) ==
    LET keep == [exit |-> FALSE, code |-> -1, msg |-> << >>,
                 graph |-> g, start |-> st, end |-> en, lineNumber |-> ln]
        Exit(code, text, arg) ==
            [keep EXCEPT !.exit = TRUE, !.code = code, !.msg = <<Println(text, arg)>>]
    IN  IF HasPrefix(line, "#")
        THEN IF line = StartDirective THEN [keep EXCEPT !.start = TRUE]
             ELSE IF line = EndDirective THEN [keep EXCEPT !.end = TRUE]
             ELSE keep
        ELSE IF ln = 0
        THEN LET n == Atoi(line)
             IN  IF n.err \/ n.val <= 0
                 THEN [Exit(1, "ERROR: invalid data format, number of ants must be a positive integer", << >>)
                         EXCEPT !.graph = [g EXCEPT !.AntCount = n.val]]
                 ELSE [keep EXCEPT !.graph = [g EXCEPT !.AntCount = n.val],
                                   !.lineNumber = ln + 1]
        ELSE IF Contains(line, "-")
        THEN LET parts == Split(line, "-")
             IN  IF Len(parts) # 2 THEN Exit(1, "ERROR: invalid connection:", line)
                 ELSE IF parts[1] = parts[2]
                 THEN Exit(0, "ERROR: self referencing room:", line)
                 ELSE IF IdenticalConnection(g.Connections, order, parts)
                 THEN Exit(1, "ERROR: invalid data format, identical connection already exists:", line)
                 ELSE [keep EXCEPT !.graph = AddConnection(g, parts[1], parts[2]).g]
        ELSE LET fields == Fields(line)
             IN  IF Len(fields) # 3 THEN Exit(1, "ERROR: invalid room format:", line)
                 ELSE LET x == Atoi(fields[2])
                          y == Atoi(fields[3])
                          added == AddRoom(g, fields[1], x.val, y.val, st, en)
                      IN  IF x.err THEN Exit(1, "ERROR: invalid x coordinate", << >>)
                          ELSE IF y.err THEN Exit(1, "ERROR: invalid y coordinate", << >>)
                          ELSE IF added.err THEN Exit(1, "ERROR: duplicate room:", fields[1])
                          ELSE [keep EXCEPT !.graph = added.g, !.start = FALSE, !.end = FALSE]

ReadLine ==
    /\ pc = "scan"
    /\ scanner <= Len(file)
    /\ \E order \in KeyOrders(graph.Connections) :
         LET r == LineOutcome(file[scanner], order, graph, start, end, lineNumber)
         IN  /\ graph' = r.graph
             /\ start' = r.start
             /\ end' = r.end
             /\ lineNumber' = r.lineNumber
             /\ output' = output \o r.msg
             /\ exitCode' = r.code
             /\ pc' = IF r.exit THEN "exit" ELSE "scan"
    /\ scanner' = scanner + 1
    /\ UNCHANGED <<inputVars, routeVars>>

\* the end of readInput (src/main.go:147-155); the scanner reports no error
ReadEnd ==
    /\ pc = "scan"
    /\ scanner > Len(file)
    /\ IF graph.StartRoom = << >> \/ graph.EndRoom = << >>
       THEN /\ output' = Append(output, Println("ERROR: missing start or end room", << >>))
            /\ pc' = "exit"
            /\ exitCode' = 0
       ELSE /\ output' = output
            /\ pc' = "findShortestPaths"
            /\ exitCode' = exitCode
    /\ UNCHANGED <<inputVars, readVars, routeVars>>

(***************************************************************************)
(* main after readInput (src/main.go:354-391).                             *)
(***************************************************************************)
\* debugPaths: one printed line per path
DebugPaths(ps) ==
    <<Println("All paths found:", << >>)>>
    \o [i \in 1..Len(ps) |-> Println("Path %d: %s", Itoa(i) \o <<":">> \o Join(ps[i], <<" ", "-", ">">>))]

\* NoPathFound with a slip: the empty result is not noticed
NoPathFoundIgnored(ps) == FALSE

\* line 358
NoPathFound(ps) == Len(ps) = 0

\* lines 354-363
FindShortestPaths ==
    /\ pc = "findShortestPaths"
    /\ LET r == findShortestPaths(graph, graph.StartRoom)
           counted == Append(output, Println("Number of ants: %d", Itoa(graph.AntCount)))
       IN  /\ visited' = r.visited
           /\ paths' = r.paths
           /\ IF NoPathFound(r.paths)
              THEN /\ output' = Append(counted, Println("ERROR: No valid path found", << >>))
                   /\ pc' = "done"
                   /\ exitCode' = 0
              ELSE /\ output' = counted \o DebugPaths(r.paths)
                   /\ pc' = "calculateSolutionGroups"
                   /\ exitCode' = exitCode
    /\ UNCHANGED <<inputVars, readVars, solutionGroups, groupIndex, assignment, assignments,
                   antMoves, antPositions, roomFull, tunnelsUsed, moveStrings, finishedAnts,
                   antMovesPerPath, shortestSolution, steps>>

\* lines 365-371
CalculateSolutionGroups ==
    /\ pc = "calculateSolutionGroups"
    /\ solutionGroups' = calculateSolutionGroups(paths, graph.StartRoom, graph.EndRoom)
    /\ IF Len(solutionGroups') = 0
       THEN /\ output' = Append(output, Println("ERROR: No compatible solution group found", << >>))
            /\ pc' = "done"
            /\ exitCode' = 0
       ELSE /\ output' = output
            /\ pc' = "distributeAnts"
            /\ exitCode' = exitCode
    /\ groupIndex' = 1
    /\ antMovesPerPath' = << >>
    /\ UNCHANGED <<inputVars, readVars, visited, paths, assignment, assignments, antMoves,
                   antPositions, roomFull, tunnelsUsed, moveStrings, finishedAnts,
                   shortestSolution, steps>>

\* DistributeAnts with a slip: the ants are counted down in the graph itself
DistributeAntsCounting ==
    /\ pc = "distributeAnts"
    /\ assignment' = distributeAnts(solutionGroups[groupIndex], graph.AntCount)
    /\ graph' = [graph EXCEPT !.AntCount = 0]
    /\ pc' = "getAntMoves"
    /\ UNCHANGED <<inputVars, scanner, lineNumber, start, end, exitCode, output, visited,
                   paths, solutionGroups, groupIndex, assignments, antMoves, antPositions,
                   roomFull, tunnelsUsed, moveStrings, finishedAnts, antMovesPerPath,
                   shortestSolution, steps>>

\* line 374, for the group the loop of line 372 is at
DistributeAnts ==
    /\ pc = "distributeAnts"
    /\ assignment' = distributeAnts(solutionGroups[groupIndex], graph.AntCount)
    /\ pc' = "getAntMoves"
    /\ UNCHANGED <<inputVars, readVars, exitCode, output, visited, paths, solutionGroups,
                   groupIndex, assignments, antMoves, antPositions, roomFull, tunnelsUsed,
                   moveStrings, finishedAnts, antMovesPerPath, shortestSolution, steps>>

\* getAntMoves, lines 275-293: the map is ranged over in some order, then sorted
GetAntMovesBegin ==
    /\ pc = "getAntMoves"
    /\ \E order \in KeyOrders(assignment) :
         assignments' = SortAssignments(AssignmentSlice(assignment, order))
    /\ antMoves' = << >>
    /\ antPositions' = EmptyMap
    /\ roomFull' = EmptyMap
    /\ tunnelsUsed' = EmptyMap
    /\ moveStrings' = << >>
    /\ finishedAnts' = 0
    /\ pc' = "turn"
    /\ UNCHANGED <<inputVars, readVars, exitCode, output, visited, paths, solutionGroups,
                   groupIndex, assignment, antMovesPerPath, shortestSolution, steps>>

\* AppendMoves with a slip: a turn without moves adds its (empty) line too
AppendMovesAlways(log, moves) == log \o Join(moves, <<" ">>) \o <<"\n">>

\* lines 324-326: the line of a turn is added to the log when an ant moved
AppendMoves(log, moves) ==
    IF Len(moves) > 0 THEN log \o Join(moves, <<" ">>) \o <<"\n">> ELSE log

\* lines 296-322: the turn that starts in the current state, up to its last ant
NextTurn ==
    MoveAnts(assignments, 1,
             [antPositions |-> antPositions, roomFull |-> roomFull,
              tunnelsUsed |-> EmptyMap, moveStrings |-> << >>, finishedAnts |-> 0],
             graph.EndRoom)

\* getAntMoves, lines 296-331: one iteration of the turn loop
Turn ==
    /\ pc = "turn"
    /\ LET t == NextTurn
       IN  /\ antPositions' = t.antPositions
           /\ roomFull' = t.roomFull
           /\ tunnelsUsed' = t.tunnelsUsed
           /\ moveStrings' = t.moveStrings
           /\ finishedAnts' = t.finishedAnts
           /\ antMoves' = AppendMoves(antMoves, t.moveStrings)
           /\ pc' = IF t.finishedAnts = Len(assignments) THEN "return" ELSE "turn"
    /\ UNCHANGED <<inputVars, readVars, exitCode, output, visited, paths, solutionGroups,
                   groupIndex, assignment, assignments, antMovesPerPath, shortestSolution,
                   steps>>

\* getAntMoves, line 333, and the append of line 377
GetAntMovesReturn ==
    /\ pc = "return"
    /\ antMovesPerPath' = Append(antMovesPerPath, antMoves)
    /\ groupIndex' = groupIndex + 1
    /\ pc' = IF groupIndex < Len(solutionGroups) THEN "distributeAnts" ELSE "select"
    /\ UNCHANGED <<inputVars, readVars, exitCode, output, visited, paths, solutionGroups,
                   assignment, assignments, antMoves, antPositions, roomFull, tunnelsUsed,
                   moveStrings, finishedAnts, shortestSolution, steps>>

\* Shortest with a slip: among solutions of equally few lines the last one wins
RECURSIVE ShortestLast(_, _, _)
ShortestLast(solutions, i, best) ==
    IF i > Len(solutions) THEN best
    ELSE IF Count(solutions[i], "\n") <= Count(best, "\n")
         THEN ShortestLast(solutions, i + 1, solutions[i])
         ELSE ShortestLast(solutions, i + 1, best)

\* lines 380-385: the first solution with the fewest "\n"
RECURSIVE Shortest(_, _, _)
Shortest(solutions, i, best) ==
    IF i > Len(solutions) THEN best
    ELSE IF Count(solutions[i], "\n") < Count(best, "\n")
         THEN Shortest(solutions, i + 1, solutions[i])
         ELSE Shortest(solutions, i + 1, best)

\* lines 380-391
SelectShortest ==
    /\ pc = "select"
    /\ shortestSolution' = Shortest(antMovesPerPath, 1, antMovesPerPath[1])
    /\ steps' = Count(shortestSolution', "\n")
    /\ output' = output \o <<Println("", << >>),
                             Println("Shortest path\n", shortestSolution'),
                             Println("Here you go!", << >>),
                             Println("Quickest path with %d turns", Itoa(steps'))>>
    /\ pc' = "done"
    /\ exitCode' = 0
    /\ UNCHANGED <<inputVars, readVars, visited, paths, solutionGroups, groupIndex,
                   assignment, assignments, antMoves, antPositions, roomFull, tunnelsUsed,
                   moveStrings, finishedAnts, antMovesPerPath>>

\* the program is run a second time on the same arguments and the same file
Rerun ==
    /\ pc \in {"done", "exit"}
    /\ run = 1
    /\ run' = 2
    /\ firstRun' = <<[output |-> output, exitCode |-> exitCode]>>
    /\ pc' = "main"
    /\ exitCode' = -1
    /\ output' = << >>
    /\ scanner' = 1
    /\ lineNumber' = 0
    /\ start' = FALSE
    /\ end' = FALSE
    /\ graph' = NewGraph
    /\ visited' = EmptyMap
    /\ paths' = << >>
    /\ solutionGroups' = << >>
    /\ groupIndex' = 1
    /\ assignment' = EmptyMap
    /\ assignments' = << >>
    /\ antMoves' = << >>
    /\ antPositions' = EmptyMap
    /\ roomFull' = EmptyMap
    /\ tunnelsUsed' = EmptyMap
    /\ moveStrings' = << >>
    /\ finishedAnts' = 0
    /\ antMovesPerPath' = << >>
    /\ shortestSolution' = << >>
    /\ steps' = 0
    /\ UNCHANGED <<argGiven, fileExists, file, visualizerVars>>

Next ==
    \/ MainStart
    \/ ReadLine
    \/ ReadEnd
    \/ FindShortestPaths
    \/ CalculateSolutionGroups
    \/ DistributeAnts
    \/ GetAntMovesBegin
    \/ Turn
    \/ GetAntMovesReturn
    \/ SelectShortest

Spec == Init /\ [][Next]_vars

\* the program run twice on the same input
NextTwice == Next \/ Rerun

SpecTwice == Init /\ [][NextTwice]_vars

(***************************************************************************)
(* The visualizer variant as a program of its own                          *)
(* (src/unnamed/part_000:160-218).                                         *)
(***************************************************************************)
\* the variables of main.go the visualizer variant has no use for
unusedByVisualizer ==
    <<scanner, lineNumber, start, end, visited, paths, solutionGroups, groupIndex,
      assignment, assignments, antMoves, roomFull, tunnelsUsed, antMovesPerPath,
      shortestSolution, steps, run, firstRun>>

VisualizerInit ==
    /\ \/ argGiven = FALSE /\ fileExists = FALSE /\ file = << >>
       \/ argGiven = TRUE /\ fileExists = FALSE /\ file = << >>
       \/ argGiven = TRUE /\ fileExists = TRUE /\ file \in InputFiles
    /\ pc = "visualizer"
    /\ exitCode = -1
    /\ output = << >>
    /\ graph = NewGraph
    /\ shortestPath = << >>
    /\ antPositions = EmptyMap
    /\ roomOccupancy = EmptyMap
    /\ step = 0
    /\ moveStrings = << >>
    /\ finishedAnts = 0
    /\ scanner = 1
    /\ lineNumber = 0
    /\ start = FALSE
    /\ end = FALSE
    /\ visited = EmptyMap
    /\ paths = << >>
    /\ solutionGroups = << >>
    /\ groupIndex = 1
    /\ assignment = EmptyMap
    /\ assignments = << >>
    /\ antMoves = << >>
    /\ roomFull = EmptyMap
    /\ tunnelsUsed = EmptyMap
    /\ antMovesPerPath = << >>
    /\ shortestSolution = << >>
    /\ steps = 0
    /\ run = 1
    /\ firstRun = << >>

\* main, lines 203-214
VisualizerMain ==
    /\ pc = "visualizer"
    /\ IF ~argGiven
       THEN /\ output' = Append(output, Println("Usage: go run visualizer.go <input_file>", << >>))
            /\ pc' = "visualizerDone"
            /\ exitCode' = 0
            /\ graph' = graph
       ELSE IF ~fileExists \/ parseInput(file).err
       THEN /\ output' = Append(output, Println("ERROR:", << >>))
            /\ pc' = "visualizerDone"
            /\ exitCode' = 0
            /\ graph' = graph
       ELSE /\ output' = output
            /\ pc' = "findShortestPath"
            /\ exitCode' = exitCode
            /\ graph' = parseInput(file).g
    /\ UNCHANGED <<argGiven, fileExists, file, visualizerVars, antPositions, moveStrings,
                   finishedAnts, unusedByVisualizer>>

\* main, line 216, and visualizeAntMovements up to its loop (lines 161-163)
VisualizerFindShortestPath ==
    /\ pc = "findShortestPath"
    /\ shortestPath' = findShortestPath(graph)
    /\ antPositions' = EmptyMap
    /\ roomOccupancy' = EmptyMap
    /\ step' = 1
    /\ pc' = "visualize"
    /\ UNCHANGED <<argGiven, fileExists, file, exitCode, output, graph, moveStrings,
                   finishedAnts, unusedByVisualizer>>

\* lines 166-188: the turn that starts in the current state, up to its last ant
NextVisualizerTurn ==
    VisualizerMoveAnts(1, graph.AntCount, shortestPath, graph.EndRoom,
                       [antPositions |-> antPositions, roomOccupancy |-> roomOccupancy,
                        moveStrings |-> << >>, finishedAnts |-> 0])

\* visualizeAntMovements, lines 165-199: one iteration of the loop; the model
\* follows the loop for MaxSteps iterations
VisualizerTurn ==
    /\ pc = "visualize"
    /\ step <= MaxSteps
    /\ LET t == NextVisualizerTurn
       IN  /\ antPositions' = t.antPositions
           /\ roomOccupancy' = t.roomOccupancy
           /\ moveStrings' = t.moveStrings
           /\ finishedAnts' = t.finishedAnts
           /\ output' = IF Len(t.moveStrings) > 0
                        THEN Append(output, Println("%s", Join(t.moveStrings, <<" ">>)))
                        ELSE output
           /\ IF t.finishedAnts = graph.AntCount
              THEN /\ pc' = "visualizerDone"
                   /\ exitCode' = 0
                   /\ step' = step
              ELSE /\ pc' = "visualize"
                   /\ exitCode' = exitCode
                   /\ step' = step + 1
    /\ UNCHANGED <<argGiven, fileExists, file, graph, shortestPath, unusedByVisualizer>>

VisualizerNext ==
    \/ VisualizerMain
    \/ VisualizerFindShortestPath
    \/ VisualizerTurn

VisualizerSpec == VisualizerInit /\ [][VisualizerNext]_vars

(***************************************************************************)
(* Notions the properties are stated with.                                 *)
(***************************************************************************)
Range(s) == {s[i] : i \in 1..Len(s)}

NeighbourSet(g, r) == Range(Get(g.Connections, r, << >>))

\* the graph readInput promises: one source, one distinct sink, no self-loop,
\* no tunnel listed twice, symmetric adjacency, at least one ant
ValidGraph(g) ==
    /\ g.AntCount >= 1
    /\ {r \in DOMAIN g.Rooms : g.Rooms[r].IsStart} = {g.StartRoom}
    /\ {r \in DOMAIN g.Rooms : g.Rooms[r].IsEnd} = {g.EndRoom}
    /\ g.StartRoom # g.EndRoom
    /\ \A r \in DOMAIN g.Connections :
         /\ r \in DOMAIN g.Rooms
         /\ r \notin NeighbourSet(g, r)
         /\ Cardinality(NeighbourSet(g, r)) = Len(g.Connections[r])
         /\ \A q \in NeighbourSet(g, r) : r \in NeighbourSet(g, q)

\* readInput has returned its graph to main
Routing ==
    pc \in {"findShortestPaths", "calculateSolutionGroups", "distributeAnts", "getAntMoves",
            "turn", "return", "select", "done"}

\* getAntMoves is between two turns, or has left its loop
BetweenTurns == pc \in {"turn", "return"}

Ants == DOMAIN assignment

AntPosition(id) == Get(antPositions, id, 0)

AntRoom(id) == assignment[id][AntPosition(id) + 1]

IsInner(r) == r # graph.StartRoom /\ r # graph.EndRoom

\* a move token "L<id>-<room>" read back
ParseMove(token) ==
    LET parts == Split(token, "-")
    IN  [ant |-> DecimalValue(Tail(parts[1])), room |-> parts[2]]

\* the lines of a movement log, each the sequence of its [ant, room] moves
LogLines(log) ==
    LET pieces == Split(log, "\n")
        lines  == SubSeq(pieces, 1, Len(pieces) - 1)
    IN  [k \in 1..Len(lines) |->
            LET tokens == Split(lines[k], " ")
            IN  [m \in 1..Len(tokens) |-> ParseMove(tokens[m])]]

\* the moves of the latest turn with the room each ant left
TurnMoves ==
    [k \in 1..Len(moveStrings) |->
        LET m == ParseMove(moveStrings[k])
        IN  [ant |-> m.ant, from |-> assignment[m.ant][AntPosition(m.ant)], to |-> m.room]]

RECURSIVE SumOver(_, _)
SumOver(set, f) ==
    IF set = {} THEN 0
    ELSE LET x == CHOOSE y \in set : TRUE IN f[x] + SumOver(set \ {x}, f)

\* the simple paths of k rooms that leave the source and stop at the sink
RECURSIVE SimpleWalks(_, _)
SimpleWalks(g, k) ==
    IF k = 1 THEN {<<g.StartRoom>>}
    ELSE UNION {{Append(p, n) : n \in NeighbourSet(g, p[Len(p)]) \ Range(p)} :
                   p \in {q \in SimpleWalks(g, k - 1) : q[Len(q)] # g.EndRoom}}

SimplePaths(g) ==
    UNION {{p \in SimpleWalks(g, k) : p[Len(p)] = g.EndRoom} :
              k \in 1..Cardinality(DOMAIN g.Rooms)}

Disjoint(p, q, g) == Range(p) \cap Range(q) \subseteq {g.StartRoom, g.EndRoom}

\* the most ants that can have reached the sink after t turns: a path of n rooms
\* delivers its first ant on turn n - 1 and one more on every later turn, and the
\* best schedules stream the ants along pairwise disjoint paths
Deliverable(g, t) ==
    LET sets == {Q \in SUBSET SimplePaths(g) :
                    \A p, q \in Q : p # q => Disjoint(p, q, g)}
        gain == [p \in SimplePaths(g) |-> IF t - Len(p) + 2 > 0 THEN t - Len(p) + 2 ELSE 0]
    IN  CHOOSE best \in {SumOver(Q, gain) : Q \in sets} :
            \A Q \in sets : SumOver(Q, gain) <= best

\* the fewest turns in which g.AntCount ants can all be moved to the sink
MinTurns(g) ==
    CHOOSE t \in 1..(g.AntCount + Cardinality(DOMAIN g.Rooms)) :
        /\ Deliverable(g, t) >= g.AntCount
        /\ \A u \in 1..(t - 1) : Deliverable(g, u) < g.AntCount

(***************************************************************************)
(* Properties.                                                             *)
(***************************************************************************)
\* C1: for every valid input with a reachable sink, the number of lines of the
\* movement log main selects is the least number of turns of any schedule that
\* keeps at most one ant per inner room and one ant per tunnel per turn.
C1_MinimumTurns ==
    (pc = "done" /\ ValidGraph(graph) /\ paths # << >>)
        => Count(shortestSolution, "\n") = MinTurns(graph)

\* C2: between the turns of getAntMoves every room other than the source and the
\* sink is the current room of at most one ant.
C2_OneAntPerRoom ==
    (BetweenTurns /\ ValidGraph(graph))
        => \A i, j \in Ants : (i # j /\ AntRoom(i) = AntRoom(j)) => ~IsInner(AntRoom(i))

\* C2 witness: an ant stands in an inner room while the next ant of its path waits
\* at the source for that room.
C2_Witness ==
    /\ pc = "turn"
    /\ \E i, j \in Ants :
         /\ i < j
         /\ assignment[i] = assignment[j]
         /\ AntPosition(i) = 1
         /\ AntPosition(j) = 0
         /\ IsInner(AntRoom(i))

\* C3: in every turn of getAntMoves no two ants make the same cur->nxt move.
C3_OneAntPerTunnel ==
    (BetweenTurns /\ ValidGraph(graph))
        => \A j, k \in 1..Len(moveStrings) :
              j # k => ~(TurnMoves[j].from = TurnMoves[k].from
                         /\ TurnMoves[j].to = TurnMoves[k].to)

\* C4: while some ant has not reached the sink the coming turn moves at least one
\* ant; the loop is left exactly on the first turn in which no ant moves; then
\* every ant is at the sink, and the log holds no empty line.
C4_TurnLoopEnds ==
    ValidGraph(graph) =>
        /\ pc = "turn" =>
             /\ (\E id \in Ants : AntRoom(id) # graph.EndRoom) => NextTurn.moveStrings # << >>
             /\ (NextTurn.moveStrings = << >>) <=> (NextTurn.finishedAnts = Len(assignments))
        /\ pc = "return" =>
             /\ \A id \in Ants : AntRoom(id) = graph.EndRoom
                                 /\ AntPosition(id) = Len(assignment[id]) - 1
             /\ moveStrings = << >>
             /\ LET pieces == Split(antMoves, "\n")
                IN  /\ pieces[Len(pieces)] = << >>
                    /\ \A k \in 1..(Len(pieces) - 1) : pieces[k] # << >>

\* C4 witness: the loop has been left after several turns of several ants.
C4_Witness ==
    /\ pc = "return"
    /\ graph.AntCount >= 3
    /\ Count(antMoves, "\n") >= 4
    /\ \A id \in Ants : AntRoom(id) = graph.EndRoom

RECURSIVE Flatten(_)
Flatten(seqs) == IF seqs = << >> THEN << >> ELSE seqs[1] \o Flatten(Tail(seqs))

\* the rooms ant id moves to in a log, in turn order
Destinations(log, id) ==
    LET own == SelectSeq(Flatten(LogLines(log)), LAMBDA m : m.ant = id)
    IN  [k \in 1..Len(own) |-> own[k].room]

\* C5: in the log of a path group the ant ids that appear are exactly 1..N, and
\* the rooms an ant moves to are, in turn order, its assigned path without the
\* source.
C5_AntsFollowTheirPaths ==
    (pc = "return" /\ ValidGraph(graph)) =>
        /\ {m.ant : m \in Range(Flatten(LogLines(antMoves)))} = 1..graph.AntCount
        /\ \A id \in 1..graph.AntCount :
             /\ assignment[id] \in Range(solutionGroups[groupIndex])
             /\ Destinations(antMoves, id) = Tail(assignment[id])

\* C5 witness: the log of three or more ants spread over two paths.
C5_Witness ==
    /\ pc = "return"
    /\ graph.AntCount >= 3
    /\ \E i, j \in Ants : assignment[i] # assignment[j]

\* C6: every path findShortestPaths returns starts at the source, ends at the
\* sink, holds no room twice, and joins consecutive rooms by tunnels of the graph.
C6_PathsValid ==
    (Routing /\ pc # "findShortestPaths" /\ ValidGraph(graph)) =>
        \A k \in 1..Len(paths) :
            LET p == paths[k]
            IN  /\ Len(p) >= 2
                /\ p[1] = graph.StartRoom
                /\ p[Len(p)] = graph.EndRoom
                /\ Cardinality(Range(p)) = Len(p)
                /\ \A i \in 1..(Len(p) - 1) : p[i + 1] \in NeighbourSet(graph, p[i])

\* C6 witness: several paths were returned, one of them through two inner rooms.
C6_Witness ==
    /\ pc = "calculateSolutionGroups"
    /\ Len(paths) >= 3
    /\ \E k \in 1..Len(paths) : Len(paths[k]) >= 4

\* C7: the paths of every candidate group are pairwise disjoint but for the source
\* and the sink; when one inner room lies on every path, every group is one path.
C7_GroupsDisjoint ==
    (Routing /\ pc \notin {"findShortestPaths", "calculateSolutionGroups"}
       /\ ValidGraph(graph) /\ paths # << >>) =>
        /\ \A g \in 1..Len(solutionGroups) :
             \A i, j \in 1..Len(solutionGroups[g]) :
                 i # j => Disjoint(solutionGroups[g][i], solutionGroups[g][j], graph)
        /\ (\E r \in DOMAIN graph.Rooms :
               IsInner(r) /\ \A k \in 1..Len(paths) : r \in Range(paths[k]))
             => \A g \in 1..Len(solutionGroups) : Len(solutionGroups[g]) = 1

\* C7 witness: a group of two paths was built although a third path, sharing a
\* room with one of them, was on offer.
C7_Witness ==
    /\ pc = "distributeAnts"
    /\ \E g \in 1..Len(solutionGroups) :
         /\ Len(solutionGroups[g]) >= 2
         /\ \E k \in 1..Len(paths) :
              /\ paths[k] \notin Range(solutionGroups[g])
              /\ \E i \in 1..Len(solutionGroups[g]) :
                   ~Disjoint(paths[k], solutionGroups[g][i], graph)

Max(set) == CHOOSE x \in set : \A y \in set : y <= x

\* the index of the group whose log main prints: the first with the fewest lines
ChosenIndex ==
    CHOOSE i \in 1..Len(antMovesPerPath) :
        /\ \A j \in 1..Len(antMovesPerPath) :
             Count(antMovesPerPath[i], "\n") <= Count(antMovesPerPath[j], "\n")
        /\ \A j \in 1..(i - 1) :
             Count(antMovesPerPath[i], "\n") < Count(antMovesPerPath[j], "\n")

ChosenGroup == solutionGroups[ChosenIndex]

\* a_i: the number of ants distributeAnts assigns to the i-th path of the chosen group
AntsOn(i) ==
    LET given == distributeAnts(ChosenGroup, graph.AntCount)
    IN  Cardinality({id \in DOMAIN given : given[id] = ChosenGroup[i]})

Printed == pc = "done" /\ ValidGraph(graph) /\ antMovesPerPath # << >>

\* C8 as stated: the number of lines of the printed log is max_i(len(p_i) - 1 + a_i)
\* over the paths of the chosen path set.
C8_TurnsAsStated ==
    Printed =>
        /\ shortestSolution = antMovesPerPath[ChosenIndex]
        /\ Count(shortestSolution, "\n")
             = Max({Len(ChosenGroup[i]) - 1 + AntsOn(i) : i \in 1..Len(ChosenGroup)})

\* C8 amended: the number of lines of the printed log is at most the largest
\* len(p_i) - 2 + a_i over the paths of the chosen set that received an ant, and
\* equals it when the chosen set does not hold the two-room path.
C8_TurnsOfChosenSet ==
    Printed =>
        LET used  == {i \in 1..Len(ChosenGroup) : AntsOn(i) >= 1}
            bound == Max({Len(ChosenGroup[i]) - 2 + AntsOn(i) : i \in used})
        IN  /\ shortestSolution = antMovesPerPath[ChosenIndex]
            /\ Count(shortestSolution, "\n") <= bound
            /\ (\A i \in 1..Len(ChosenGroup) : Len(ChosenGroup[i]) # 2)
                 => Count(shortestSolution, "\n") = bound

\* C8 witness: a log was printed for a set of two used paths of three or more
\* rooms, one of them carrying two or more ants.
C8_Witness ==
    /\ Printed
    /\ Len(ChosenGroup) >= 2
    /\ \A i \in 1..Len(ChosenGroup) : Len(ChosenGroup[i]) >= 3
    /\ \E i, j \in 1..Len(ChosenGroup) : i # j /\ AntsOn(i) >= 2 /\ AntsOn(j) >= 1

\* C9: a second run of the program on the same file prints what the first run
\* printed, the movement log included, and ends with the same status, whatever
\* orders the maps were ranged over in the two runs.
C9_SameOutputTwice ==
    (run = 2 /\ pc \in {"done", "exit"}) =>
        /\ output = firstRun[1].output
        /\ exitCode = firstRun[1].exitCode

\* C9 witness: the second run has printed a log of several ants and turns.
C9_Witness ==
    /\ run = 2
    /\ pc = "done"
    /\ graph.AntCount >= 3
    /\ steps >= 3
    /\ Cardinality(DOMAIN graph.Connections) >= 3

\* the rooms that can be reached from the rooms of `seen`
RECURSIVE ReachableFrom(_, _)
ReachableFrom(g, seen) ==
    LET more == seen \cup UNION {NeighbourSet(g, r) : r \in seen}
    IN  IF more = seen THEN seen ELSE ReachableFrom(g, more)

NoRoute == graph.EndRoom \notin ReachableFrom(graph, {graph.StartRoom})

\* C10: when the sink cannot be reached from the source, findShortestPaths returns
\* no path, main prints the no-path error and returns; distributeAnts and
\* getAntMoves do not run and no movement log is printed.
C10_NoPath ==
    (Routing /\ pc # "findShortestPaths" /\ ValidGraph(graph) /\ NoRoute) =>
        /\ pc = "done"
        /\ paths = << >>
        /\ output[Len(output)] = Println("ERROR: No valid path found", << >>)
        /\ solutionGroups = << >>
        /\ assignment = EmptyMap
        /\ assignments = << >>
        /\ antMovesPerPath = << >>
        /\ shortestSolution = << >>
        /\ \A k \in 1..Len(output) : output[k].text # "Shortest path\n"

\* C10 witness: main has returned on a graph with tunnels at the source but no
\* route to the sink.
C10_Witness ==
    /\ pc = "done"
    /\ ValidGraph(graph)
    /\ NoRoute
    /\ NeighbourSet(graph, graph.StartRoom) # {}

\* the process has ended
Ended == pc \in {"done", "exit"}

\* the messages of the program that begin with ERROR:
ErrorMessages ==
    {"ERROR: %v",
     "ERROR: invalid data format, number of ants must be a positive integer",
     "ERROR: invalid connection:",
     "ERROR: self referencing room:",
     "ERROR: invalid data format, identical connection already exists:",
     "ERROR: invalid room format:",
     "ERROR: invalid x coordinate",
     "ERROR: invalid y coordinate",
     "ERROR: duplicate room:",
     "ERROR: missing start or end room",
     "ERROR: No valid path found",
     "ERROR: No compatible solution group found"}

\* the run failed: it ended on one of the ERROR: messages
Failed == Ended /\ output # << >> /\ output[Len(output)].text \in ErrorMessages

\* the run succeeded: it ended on the turn count that follows the printed log
Succeeded ==
    /\ pc = "done"
    /\ \E k \in 1..Len(output) : output[k].text = "Shortest path\n"
    /\ output[Len(output)].text = "Quickest path with %d turns"

\* C11: a run on an input file ends either in failure, on a message beginning with
\* ERROR: and with a non-zero exit status, or in success with exit status 0; every
\* parse or routing failure is of the first kind.
C11_FailuresExitNonZero ==
    (Ended /\ argGiven /\ fileExists) =>
        /\ Failed \/ Succeeded
        /\ Failed => exitCode # 0
        /\ exitCode = 0 => Succeeded

\* C12: when readInput has returned its graph, exactly one room has IsStart set,
\* exactly one room has IsEnd set, these are StartRoom and EndRoom, and the two
\* differ; so a file that marks two rooms with ##start, two rooms with ##end or one
\* room with both does not get that far.
C12_OneSourceOneSink ==
    Routing =>
        /\ Cardinality({r \in DOMAIN graph.Rooms : graph.Rooms[r].IsStart}) = 1
        /\ Cardinality({r \in DOMAIN graph.Rooms : graph.Rooms[r].IsEnd}) = 1
        /\ graph.StartRoom \in DOMAIN graph.Rooms
        /\ graph.EndRoom \in DOMAIN graph.Rooms
        /\ graph.Rooms[graph.StartRoom].IsStart
        /\ graph.Rooms[graph.EndRoom].IsEnd
        /\ graph.StartRoom # graph.EndRoom

\* the line is a tunnel line "a-b" of the format: no space, two names around one "-"
IsTunnelLine(line) ==
    /\ ~HasPrefix(line, "#")
    /\ Len(Fields(line)) = 1
    /\ Len(Split(line, "-")) = 2

\* the name is declared by a room line "name x y" before line i of the file
DeclaredBefore(name, i) ==
    \E j \in 2..(i - 1) :
        /\ ~HasPrefix(file[j], "#")
        /\ Len(Fields(file[j])) = 3
        /\ Fields(file[j])[1] = name

\* the tunnel lines of the file that name a room no earlier line declares
UnknownRoomLines ==
    {i \in 2..Len(file) :
        /\ IsTunnelLine(file[i])
        /\ \E k \in 1..2 : ~DeclaredBefore(Split(file[i], "-")[k], i)}

\* C13: a tunnel line a-b in which a or b is not declared by an earlier line makes
\* readInput fail on that line with an error; the line is never passed over, and
\* readInput does not return a graph for such a file.
C13_UnknownRoomRejected ==
    \A i \in UnknownRoomLines :
        /\ scanner <= i + 1
        /\ (scanner = i + 1 /\ pc # "main")
             => (pc = "exit" /\ exitCode # 0 /\ Failed)

\* the line read last by the scanner loop, once a line was read
LastLine == file[scanner - 1]

LineWasRead == pc \in {"scan", "exit"} /\ scanner > 1 /\ lineNumber > 0

\* LastLine is a tunnel line of one room twice
SelfLoopRead ==
    /\ LineWasRead
    /\ IsTunnelLine(LastLine)
    /\ Split(LastLine, "-")[1] = Split(LastLine, "-")[2]

\* LastLine is a tunnel line whose tunnel is in the adjacency lists, in the
\* orientation `there`-`back` of the line or in the other one
RepeatedTunnelRead ==
    /\ LineWasRead
    /\ IsTunnelLine(LastLine)
    /\ LET there == Split(LastLine, "-")[1]
           back  == Split(LastLine, "-")[2]
       IN  /\ there # back
           /\ \E i \in 2..(scanner - 2) :
                /\ IsTunnelLine(file[i])
                /\ {Split(file[i], "-")[1], Split(file[i], "-")[2]} = {there, back}
           /\ there \in NeighbourSet(graph, back) \/ back \in NeighbourSet(graph, there)

\* C14: a tunnel line of one room twice, or one that repeats an added tunnel in
\* either orientation, ends the run with an error while the file is read; so when
\* readInput has returned, no room is its own neighbour, no adjacency list holds a
\* room twice, and b is a neighbour of a exactly when a is a neighbour of b.
C14_NoSelfLoopNoRepeatedTunnel ==
    /\ (SelfLoopRead \/ RepeatedTunnelRead) => (pc = "exit" /\ Failed)
    /\ Routing =>
         \A r \in DOMAIN graph.Connections :
             /\ r \notin NeighbourSet(graph, r)
             /\ Cardinality(NeighbourSet(graph, r)) = Len(graph.Connections[r])
             /\ \A q \in NeighbourSet(graph, r) : r \in NeighbourSet(graph, q)

\* C14 witness: a file was turned down on a tunnel line that repeats, the other way
\* round, one of the two tunnels added before it.
C14_Witness ==
    /\ RepeatedTunnelRead
    /\ pc = "exit"
    /\ Split(LastLine, "-")[1] \in NeighbourSet(graph, Split(LastLine, "-")[2])
    /\ Cardinality(DOMAIN graph.Connections) >= 3
    /\ \E i \in 2..(scanner - 2) :
         /\ IsTunnelLine(file[i])
         /\ Split(file[i], "-")[1] = Split(LastLine, "-")[2]
         /\ Split(file[i], "-")[2] = Split(LastLine, "-")[1]

\* LastLine is "name x y" with decimal integers x and y, one of them negative, and
\* no room of that name was declared before it
NegativeRoomLineRead ==
    /\ LineWasRead
    /\ ~HasPrefix(LastLine, "#")
    /\ Len(Fields(LastLine)) = 3
    /\ LET fields == Fields(LastLine)
           x == Atoi(fields[2])
           y == Atoi(fields[3])
       IN  /\ ~x.err
           /\ ~y.err
           /\ x.val < 0 \/ y.val < 0
           /\ ~DeclaredBefore(fields[1], scanner - 1)

\* the directive lines between the room line before line i and line i
PendingMark(i, directive) ==
    \E j \in 1..(i - 1) :
        /\ file[j] = directive
        /\ \A k \in (j + 1)..(i - 1) : HasPrefix(file[k], "#")

\* C15: a line "name x y" with a negative x or y is read as a room line: the scanner
\* loop goes on, and the room is in graph.Rooms with the coordinates of the line and
\* with the ##start / ##end mark that was pending, which is then used up.
C15_NegativeCoordinates ==
    NegativeRoomLineRead =>
        LET fields == Fields(LastLine)
        IN  /\ pc = "scan"
            /\ fields[1] \in DOMAIN graph.Rooms
            /\ graph.Rooms[fields[1]] =
                   [Name |-> fields[1], X |-> Atoi(fields[2]).val, Y |-> Atoi(fields[3]).val,
                    IsStart |-> PendingMark(scanner - 1, StartDirective),
                    IsEnd |-> PendingMark(scanner - 1, EndDirective)]
            /\ ~start
            /\ ~end

\* the group distributeAnts was called with
CurrentGroup == solutionGroups[groupIndex]

\* the ants with an id below k that were given the i-th path of the group
AssignedBefore(i, k) == {id \in 1..(k - 1) : assignment[id] = CurrentGroup[i]}

\* the cost of the i-th path when ant k is placed: its length plus its ants so far
CostAt(i, k) == Len(CurrentGroup[i]) + Cardinality(AssignedBefore(i, k))

\* the index of the path ant k is placed on: the lowest index of the smallest cost
CheapestAt(k) ==
    CHOOSE i \in 1..Len(CurrentGroup) :
        /\ \A j \in 1..Len(CurrentGroup) : CostAt(i, k) <= CostAt(j, k)
        /\ \A j \in 1..(i - 1) : CostAt(i, k) < CostAt(j, k)

\* C16: distributeAnts gives every ant 1..N one path of the group: ant k gets the
\* path whose cost (its length plus the number of ants with a smaller id already on
\* it) is smallest, the lowest index among equals; the ant counts of the paths sum
\* to N.
C16_GreedyDistribution ==
    pc = "getAntMoves" =>
        /\ DOMAIN assignment = 1..graph.AntCount
        /\ \A k \in 1..graph.AntCount : assignment[k] = CurrentGroup[CheapestAt(k)]
        /\ SumOver(1..Len(CurrentGroup),
                   [i \in 1..Len(CurrentGroup) |->
                       Cardinality(AssignedBefore(i, graph.AntCount + 1))])
             = graph.AntCount

\* C16 witness: three or more ants over a group whose first path is not its
\* shortest, with an ant placed while two paths had the same smallest cost.
C16_Witness ==
    /\ pc = "getAntMoves"
    /\ graph.AntCount >= 3
    /\ Len(CurrentGroup) >= 2
    /\ CheapestAt(1) > 1
    /\ \E k \in 1..graph.AntCount :
         \E j \in 1..Len(CurrentGroup) :
             j # CheapestAt(k) /\ CostAt(j, k) = CostAt(CheapestAt(k), k)

\* the ways of splitting n ants among k paths: the ant count of every path
Splits(k, n) == {a \in [1..k -> 0..n] : SumOver(1..k, a) = n}

\* T = max_i(len(p_i) - 1 + a_i) of a split a over the paths of a group
FinishTime(group, a) == Max({Len(group[i]) - 1 + a[i] : i \in 1..Len(group)})

\* C17: of all the ways of splitting the N ants among the paths of the group, the
\* one distributeAnts returns has the smallest T = max_i(len(p_i) - 1 + a_i).
C17_DistributionMinimisesT ==
    pc = "getAntMoves" =>
        LET k == Len(CurrentGroup)
            given == [i \in 1..k |->
                         Cardinality({id \in DOMAIN assignment : assignment[id] = CurrentGroup[i]})]
        IN  /\ given \in Splits(k, graph.AntCount)
            /\ \A a \in Splits(k, graph.AntCount) :
                   FinishTime(CurrentGroup, given) <= FinishTime(CurrentGroup, a)

\* C17 witness: the ants were placed on two or more paths of a group that holds
\* paths whose lengths differ by two rooms or more, and some other split is worse.
C17_Witness ==
    /\ pc = "getAntMoves"
    /\ graph.AntCount >= 2
    /\ \E i, j \in 1..Len(CurrentGroup) : Len(CurrentGroup[j]) >= Len(CurrentGroup[i]) + 2
    /\ Cardinality({assignment[id] : id \in DOMAIN assignment}) >= 2
    /\ \E a \in Splits(Len(CurrentGroup), graph.AntCount) :
         FinishTime(CurrentGroup, a)
           > FinishTime(CurrentGroup,
                        [i \in 1..Len(CurrentGroup) |->
                            Cardinality({id \in DOMAIN assignment : assignment[id] = CurrentGroup[i]})])

\* the numbers of the lines of a log in which ant id moves, in ascending order
MoveTurns(log, id) ==
    LET lines == LogLines(log)
    IN  {t \in 1..Len(lines) : \E m \in 1..Len(lines[t]) : lines[t][m].ant = id}

\* the place of ant id among the ants of its path, in ascending ant id
RankOnPath(given, id) ==
    Cardinality({other \in DOMAIN given : other <= id /\ given[other] = given[id]})

\* C18: in the printed log the k-th ant of a path p of the chosen set moves in the
\* turns k, k + 1, ..., k + len(p) - 2 and in no other, one room of p per turn;
\* when the chosen set is one path of L rooms, the log has N + L - 2 lines.
C18_AntsMoveWithoutWaiting ==
    (Printed /\ shortestSolution = antMovesPerPath[ChosenIndex]) =>
        LET given == distributeAnts(ChosenGroup, graph.AntCount)
        IN  /\ \A id \in DOMAIN given :
                 LET k == RankOnPath(given, id)
                 IN  /\ MoveTurns(shortestSolution, id) = k..(k + Len(given[id]) - 2)
                     /\ Destinations(shortestSolution, id) = Tail(given[id])
            /\ (Len(paths) = 1)
                 => Count(shortestSolution, "\n") = graph.AntCount + Len(paths[1]) - 2

\* C19 as stated: within one turn the room an ant leaves is not freed for the ants
\* processed after it, so no ant moves into a room another ant left earlier in the
\* same turn.
C19_RoomNotFreedWithinTurn ==
    (BetweenTurns /\ ValidGraph(graph)) =>
        \A j, k \in 1..Len(moveStrings) :
            (j < k /\ IsInner(TurnMoves[j].from)) => TurnMoves[k].to # TurnMoves[j].from

\* the ant moves in the coming turn
MovesNext(id) == Get(NextTurn.antPositions, id, 0) = AntPosition(id) + 1

\* the ants processed after ant id whose next room is the room ant id stands in
WaitingBehind(id) ==
    {j \in Ants : /\ j > id
                  /\ AntPosition(j) < Len(assignment[j]) - 1
                  /\ assignment[j][AntPosition(j) + 2] = AntRoom(id)}

\* C19 amended: the inner room an ant leaves is freed at once, within the turn: the
\* first of the ants processed after it that wait for this room moves into it in the
\* same turn, and the room is free at the end of the turn when no ant waits for it.
C19_RoomFreedWithinTurn ==
    (pc = "turn" /\ ValidGraph(graph)) =>
        \A id \in Ants :
            (IsInner(AntRoom(id)) /\ MovesNext(id)) =>
                IF WaitingBehind(id) = {}
                THEN ~Get(NextTurn.roomFull, AntRoom(id), FALSE)
                ELSE LET next == CHOOSE j \in WaitingBehind(id) :
                                     \A other \in WaitingBehind(id) : j <= other
                     IN  /\ MovesNext(next)
                         /\ Get(NextTurn.roomFull, AntRoom(id), FALSE)

\* C19 witness: two ants stand in consecutive inner rooms of one path with a third
\* behind them at the source, and the coming turn moves all three.
C19_Witness ==
    /\ pc = "turn"
    /\ ValidGraph(graph)
    /\ \E i, j, k \in Ants :
         /\ IsInner(AntRoom(i))
         /\ IsInner(AntRoom(j))
         /\ AntRoom(k) = graph.StartRoom
         /\ j \in WaitingBehind(i)
         /\ k \in WaitingBehind(j)
         /\ MovesNext(i)
         /\ MovesNext(j)
         /\ MovesNext(k)

\* C20: main has simulated every candidate group, in their order; the log it prints
\* is the one with the fewest lines, the earliest group's among equals; and the turn
\* count it prints is the number of lines of that log.
C20_FewestLinesFirstGroup ==
    (pc = "done" /\ antMovesPerPath # << >>) =>
        /\ Len(antMovesPerPath) = Len(solutionGroups)
        /\ \A g \in 1..Len(solutionGroups) :
             \A id \in 1..graph.AntCount :
                 Destinations(antMovesPerPath[g], id)
                   = Tail(distributeAnts(solutionGroups[g], graph.AntCount)[id])
        /\ shortestSolution = antMovesPerPath[ChosenIndex]
        /\ steps = Len(LogLines(shortestSolution))
        /\ output[Len(output) - 2] = Println("Shortest path\n", shortestSolution)
        /\ output[Len(output)] = Println("Quickest path with %d turns", Itoa(steps))

\* C20 witness: the log printed is not that of the first group, which has more
\* lines, and a later group has a different log of as few lines as the one printed.
C20_Witness ==
    /\ pc = "done"
    /\ antMovesPerPath # << >>
    /\ ChosenIndex > 1
    /\ Count(antMovesPerPath[1], "\n") > steps
    /\ \E g \in (ChosenIndex + 1)..Len(antMovesPerPath) :
         /\ Count(antMovesPerPath[g], "\n") = steps
         /\ antMovesPerPath[g] # shortestSolution

\* the lines of a log as they are written, the text after the last "\n" left out
WrittenLines(log) ==
    LET pieces == Split(log, "\n")
    IN  SubSeq(pieces, 1, Len(pieces) - 1)

\* C21: every line of a movement log holds at least one move, and the ant ids of
\* its moves are strictly ascending from left to right, so that no ant is named
\* twice in a line; a line may hold several arrivals at the sink.
C21_LinesAscending ==
    BetweenTurns =>
        /\ \A k \in 1..Len(WrittenLines(antMoves)) : WrittenLines(antMoves)[k] # << >>
        /\ \A k \in 1..Len(LogLines(antMoves)) :
             LET line == LogLines(antMoves)[k]
             IN  \A m, n \in 1..Len(line) : m < n => line[m].ant < line[n].ant

\* C21 witness: a log has a line of three or more moves, two of them arrivals at
\* the sink.
C21_Witness ==
    /\ pc = "return"
    /\ \E k \in 1..Len(LogLines(antMoves)) :
         LET line == LogLines(antMoves)[k]
         IN  /\ Len(line) >= 3
             /\ \E m, n \in 1..Len(line) :
                  m # n /\ line[m].room = graph.EndRoom /\ line[n].room = graph.EndRoom

\* the two-room path from the source to the sink
DirectPath == <<graph.StartRoom, graph.EndRoom>>

DirectTunnel == graph.EndRoom \in NeighbourSet(graph, graph.StartRoom)

\* C22: when a tunnel joins the source and the sink, the path [source, sink] is
\* one of the enumerated paths and a member of every candidate group, next to the
\* other paths of the group, which share no inner room with one another.
C22_DirectPathInEveryGroup ==
    (Routing /\ pc \notin {"findShortestPaths", "calculateSolutionGroups"}
       /\ ValidGraph(graph) /\ DirectTunnel) =>
        /\ DirectPath \in Range(paths)
        /\ Len(solutionGroups) >= 1
        /\ \A g \in 1..Len(solutionGroups) :
             /\ DirectPath \in Range(solutionGroups[g])
             /\ \A i, j \in 1..Len(solutionGroups[g]) :
                  i # j => Disjoint(solutionGroups[g][i], solutionGroups[g][j], graph)

\* C22 witness: a group seeded by a longer path holds the direct path and a third
\* path as well.
C22_Witness ==
    /\ pc = "distributeAnts"
    /\ ValidGraph(graph)
    /\ DirectTunnel
    /\ \E g \in 2..Len(solutionGroups) :
         /\ Len(solutionGroups[g]) >= 3
         /\ solutionGroups[g][1] # DirectPath
         /\ DirectPath \in Range(solutionGroups[g])

\* C23: the paths findShortestPaths returns are the simple paths of the graph from
\* the source to the sink, each of them once, in an order of non-decreasing number
\* of rooms; and the visited map it leaves behind is true for no room.
C23_AllSimplePathsOnce ==
    (Routing /\ pc # "findShortestPaths") =>
        /\ Range(paths) = SimplePaths(graph)
        /\ Len(paths) = Cardinality(SimplePaths(graph))
        /\ \A i, j \in 1..Len(paths) : i < j => Len(paths[i]) <= Len(paths[j])
        /\ \A r \in (DOMAIN graph.Rooms) \cup (DOMAIN visited) : ~Get(visited, r, FALSE)

\* C23 witness: paths of three different lengths were returned after a search
\* through four or more rooms.
C23_Witness ==
    /\ pc = "calculateSolutionGroups"
    /\ Len(paths) >= 3
    /\ Cardinality({Len(paths[k]) : k \in 1..Len(paths)}) >= 3
    /\ Cardinality(DOMAIN visited) >= 4

\* C24: no step of main after readInput has returned changes the graph (rooms,
\* adjacency lists and their order, StartRoom, EndRoom, AntCount); once the paths
\* are enumerated no step changes them, and once the groups are built no step
\* changes the groups, whose members are those paths.
C24_GraphReadOnly ==
    [][(Routing /\ Routing') =>
          /\ graph' = graph
          /\ (pc # "findShortestPaths") => paths' = paths
          /\ (pc \notin {"findShortestPaths", "calculateSolutionGroups"})
                => solutionGroups' = solutionGroups]_vars

\* C24 witness: main has returned after three or more groups were simulated, one
\* after the other, on a graph of five or more tunnels.
C24_Witness ==
    /\ pc = "done"
    /\ Len(antMovesPerPath) >= 3
    /\ graph.AntCount >= 2
    /\ SumOver(DOMAIN graph.Connections,
               [r \in DOMAIN graph.Connections |-> Len(graph.Connections[r])]) >= 10
    /\ \A g \in 1..Len(solutionGroups) : Range(solutionGroups[g]) \subseteq Range(paths)

\* the room of the path ant id of the visualizer variant stands in
VisualizerAntRoom(id) == shortestPath[Get(antPositions, id, 0) + 1]

\* every ant of the visualizer variant stands in the sink
VisualizerAllAtSink == \A id \in 1..graph.AntCount : VisualizerAntRoom(id) = graph.EndRoom

\* C25: in the visualizer variant, on the path findShortestPath returned, after
\* every turn no room of the path but the source and the sink holds two ants (the
\* sink may hold any number); when all numAnts ants stand in the sink the loop is
\* left by its coming iteration, and it is not left before.
C25_VisualizerOneAntPerRoom ==
    (pc \in {"visualize", "visualizerDone"} /\ shortestPath # << >>) =>
        /\ \A i, j \in 1..graph.AntCount :
             (i # j /\ VisualizerAntRoom(i) = VisualizerAntRoom(j))
                => VisualizerAntRoom(i) \in {graph.StartRoom, graph.EndRoom}
        /\ (pc = "visualize" /\ VisualizerAllAtSink)
             => NextVisualizerTurn.finishedAnts = graph.AntCount
        /\ (pc = "visualizerDone") => VisualizerAllAtSink

\* C26: from k >= 2 enumerated paths calculateSolutionGroups builds k groups; the
\* i-th group starts with the i-th path, and no enumerated path outside a group
\* is disjoint, in its inner rooms, from every member of that group.
C26_GroupsMaximal ==
    (Routing /\ pc \notin {"findShortestPaths", "calculateSolutionGroups"}
       /\ Len(paths) >= 2) =>
        /\ Len(solutionGroups) = Len(paths)
        /\ \A i \in 1..Len(solutionGroups) :
             /\ solutionGroups[i][1] = paths[i]
             /\ Range(solutionGroups[i]) \subseteq Range(paths)
             /\ \A k \in 1..Len(paths) :
                  paths[k] \notin Range(solutionGroups[i])
                    => \E m \in 1..Len(solutionGroups[i]) :
                           ~Disjoint(paths[k], solutionGroups[i][m], graph)

\* C26 witness: a group seeded by the third or a later path took in a path that
\* comes before its seed and left out a path that crosses one of its members.
C26_Witness ==
    /\ pc = "distributeAnts"
    /\ \E i \in 3..Len(solutionGroups) :
         /\ \E k \in 1..(i - 1) : paths[k] \in Range(solutionGroups[i])
         /\ \E k \in 1..Len(paths) : paths[k] \notin Range(solutionGroups[i])

\* the ants getAntMoves was given for the i-th path of the simulated group
AntsGiven(i) == {id \in DOMAIN assignment : assignment[id] = CurrentGroup[i]}

\* C27: for a graph with one source and one distinct sink, when the simulated group
\* does not hold the two-room path [source, sink], the log getAntMoves returns has
\* as many lines as the largest len(p_i) - 2 + a_i over the paths p_i of the group
\* that were given a_i >= 1 ants.
C27_LinesOfGroup ==
    (pc = "return" /\ ValidGraph(graph) /\ DirectPath \notin Range(CurrentGroup)) =>
        LET used == {i \in 1..Len(CurrentGroup) : AntsGiven(i) # {}}
        IN  Count(antMoves, "\n")
              = Max({Len(CurrentGroup[i]) - 2 + Cardinality(AntsGiven(i)) : i \in used})

\* C27 witness: the log of a group of two paths of different lengths, both with
\* ants, three or more in all, and neither of them the direct path.
C27_Witness ==
    /\ pc = "return"
    /\ ValidGraph(graph)
    /\ DirectPath \notin Range(CurrentGroup)
    /\ graph.AntCount >= 3
    /\ \E i, j \in 1..Len(CurrentGroup) :
         /\ Len(CurrentGroup[i]) < Len(CurrentGroup[j])
         /\ AntsGiven(i) # {}
         /\ AntsGiven(j) # {}

\* C28: at every turn boundary of getAntMoves roomFull, which is kept from turn to
\* turn, is true for a room exactly when the room is neither the source nor the
\* sink and is the current room of some ant.
C28_RoomFullIsOccupancy ==
    BetweenTurns =>
        \A r \in (DOMAIN graph.Rooms) \cup (DOMAIN roomFull) :
            Get(roomFull, r, FALSE) <=> (IsInner(r) /\ \E id \in Ants : AntRoom(id) = r)

\* C28 witness: between two turns one inner room is full, another one that an ant
\* has passed through is free again, and two or more ants are in the sink.
C28_Witness ==
    /\ pc = "turn"
    /\ \E r, q \in DOMAIN roomFull :
         /\ IsInner(r)
         /\ IsInner(q)
         /\ roomFull[r]
         /\ ~roomFull[q]
    /\ Cardinality({id \in Ants : AntRoom(id) = graph.EndRoom}) >= 2

====
